---- MODULE Spec2Model ----
(***************************************************************************)
(* Model of convert.py: a Word document body (paragraphs, tables) is       *)
(* segmented into slide records by parse_word_content and replayed into a  *)
(* presentation by create_ppt_from_docx / create_slide.                    *)
(*                                                                         *)
(* Texts are tuples of one-character strings so that strip, upper and      *)
(* startswith are computed, not assumed.  Optional values (Python None)    *)
(* are tuples of length 0 or 1.  Lengths are EMU, as pptx.util.Inches      *)
(* yields them.                                                            *)
(***************************************************************************)
EXTENDS Integers, Sequences, FiniteSets, TLC

VARIABLES
    body,                 \* doc.element.body: the document's block elements
    numbering,            \* doc.part.numbering_part: None or its num_list
    layouts,              \* prs.slide_layouts of the template: layout names
    pc,                   \* position in create_ppt_from_docx / __main__
    idx,                  \* index of the loop the program is in
    elements,             \* parse_word_content: elements
    slides_data,          \* parse_word_content: slides_data
    current_slide,        \* parse_word_content: current_slide (None = <<>>)
    current_slide_index,  \* parse_word_content: current_slide_index
    out,                  \* slides added to prs, each with its shapes
    saved,                \* the output file was written
    log,                  \* messages printed, in order
    exit_code,            \* process exit status (-1 while running)
    raised,               \* the exception raised, if any (None = <<>>)
    para,                 \* classifier input (None = <<>>)
    style                 \* classifier result (None = <<>>)

vars == <<body, numbering, layouts, pc, idx, elements, slides_data,
          current_slide, current_slide_index, out, saved, log, exit_code,
          raised, para, style>>

-----------------------------------------------------------------------------
(* Bounds of the explored inputs *)

MaxBody == 3
MaxContent == 3
MaxRuns == 1
MaxTables == 2
MaxRows == 8
MaxCols == 2
MaxLevel == 1
MaxNums == 2

None == <<>>
Some(x) == <<x>>
IsNone(o) == o = <<>>
Val(o) == o[1]

Max(a, b) == IF a >= b THEN a ELSE b

-----------------------------------------------------------------------------
(* Python str operations used by the segmenter *)

LowerChars == <<"a","b","c","d","e","f","g","h","i","j","k","l","m","n","o",
                "p","q","r","s","t","u","v","w","x","y","z","é">>
UpperChars == <<"A","B","C","D","E","F","G","H","I","J","K","L","M","N","O",
                "P","Q","R","S","T","U","V","W","X","Y","Z","É">>

Whitespace == {" "}

UpperChar(c) ==
    IF \E k \in 1..Len(LowerChars) : LowerChars[k] = c
    THEN UpperChars[CHOOSE k \in 1..Len(LowerChars) : LowerChars[k] = c]
    ELSE c

upper(s) == [k \in 1..Len(s) |-> UpperChar(s[k])]

RECURSIVE lstrip(_)
lstrip(s) ==
    IF s # <<>> /\ Head(s) \in Whitespace THEN lstrip(Tail(s)) ELSE s

RECURSIVE rstrip(_)
rstrip(s) ==
    IF s # <<>> /\ s[Len(s)] \in Whitespace
    THEN rstrip(SubSeq(s, 1, Len(s) - 1))
    ELSE s

strip(s) == rstrip(lstrip(s))

startswith(s, prefix) ==
    Len(s) >= Len(prefix) /\ SubSeq(s, 1, Len(prefix)) = prefix

endswith(s, suffix) ==
    Len(s) >= Len(suffix) /\ SubSeq(s, Len(s) - Len(suffix) + 1, Len(s)) = suffix

\* text[len(label):]
after(s, label) == SubSeq(s, Len(label) + 1, Len(s))

SLIDE == <<"S","L","I","D","E">>
TITRE == <<"T","i","t","r","e"," ",":">>
SOUS_TITRE == <<"S","o","u","s","-","t","i","t","r","e"," ","/"," ",
                "M","e","s","s","a","g","e"," ","c","l","é"," ",":">>

-----------------------------------------------------------------------------
(* Lengths: pptx.util.Inches(x) is int(x * 914400), computed on IEEE doubles *)

\* Inches(1), Inches(0.5), Inches(0.3), Inches(0.2)
INCHES_1 == 914400
INCHES_0_5 == 457200
INCHES_0_3 == 274320
INCHES_0_2 == 182880

\* Inches(px_to_inch(76)), Inches(px_to_inch(189))
CONTENT_ZONE_x == 723900
CONTENT_ZONE_y == 1800225
\* Inches(max(px_to_inch(1382), 1))
CONTENT_ZONE_width == 13163550
\* Inches(max(px_to_inch(425), 1)): 425/96.0*914400 is 4048124.9999999995
CONTENT_ZONE_height == 4048124

TITLE_ZONE_y == 333375
TITLE_ZONE_height == 666750
SUBTITLE_ZONE_y == 1133475
SUBTITLE_ZONE_height == 533400

\* the row counts n below 60 for which the double n * 0.3 * 914400 falls
\* just short of n * 274320, so that int() loses one EMU
TruncatedRows == {3, 6, 9, 12, 18, 23, 24, 29, 31, 36, 41, 46, 48, 51, 53, 57, 58}

\* Inches(len(table.rows) * 0.3)
TableHeight(rows) == rows * INCHES_0_3 - (IF rows \in TruncatedRows THEN 1 ELSE 0)

-----------------------------------------------------------------------------
(* The source document *)

TAG_P == <<"p">>
TAG_TBL == <<"t","b","l">>
TAG_SECTPR == <<"s","e","c","t","P","r">>

Run(text, bold, italic, underline, size) ==
    [text |-> text, bold |-> bold, italic |-> italic,
     underline |-> underline, size |-> size]

\* pPr: None, or [numPr: None or [ilvl, numId], ind: None or left indent in
\* hundredths of an inch]
P(runs, pPr) == [tag |-> TAG_P, runs |-> runs, pPr |-> pPr]
Tbl(rows, cols) == [tag |-> TAG_TBL, rows |-> rows, cols |-> cols]
SectPr == [tag |-> TAG_SECTPR]

RECURSIVE Concat(_)
Concat(ss) == IF ss = <<>> THEN <<>> ELSE Head(ss) \o Concat(Tail(ss))

\* Paragraph.text: the text of the runs, concatenated
ParagraphText(p) == Concat([k \in 1..Len(p.runs) |-> p.runs[k].text])

\* Python truth value of a run flag: True, or an underline style member
Truthy(v) == v \in {"True", "DOUBLE"}

-----------------------------------------------------------------------------
(* parse_word_content.get_paragraph_style *)

HasNumPr(p) == ~IsNone(p.pPr) /\ ~IsNone(Val(p.pPr).numPr)

\* mutant: without ilvl, the level is taken from the left indent
StyleLevel_FromIndent(p) ==
    IF HasNumPr(p) /\ ~IsNone(Val(Val(p.pPr).numPr).ilvl)
    THEN Val(Val(Val(p.pPr).numPr).ilvl)
    ELSE IF ~IsNone(p.pPr) /\ ~IsNone(Val(p.pPr).ind)
    THEN Val(Val(p.pPr).ind) \div 25
    ELSE 0

\* style_data["level"]: ilvl.val when pPr.numPr.ilvl is present, else 0
StyleLevel(p) ==
    IF HasNumPr(p) /\ ~IsNone(Val(Val(p.pPr).numPr).ilvl)
    THEN Val(Val(Val(p.pPr).numPr).ilvl)
    ELSE 0

HasNumId(p) == HasNumPr(p) /\ ~IsNone(Val(Val(p.pPr).numPr).numId)

\* numbering_definitions._numbering.num_list[0] raises when the document has
\* no usable numbering part or the list is empty
FirstNumRaises(nb) == IsNone(nb) \/ Val(nb) = <<>>

\* num_list[0].abstractNumId.val, the value the code compares with 0
FirstAbstractNumId(nb) == Val(nb)[1].abstractNumId

\* the kind the code derives: "bullet", "number" or "none"
ListKind(p, nb) ==
    IF ~HasNumId(p) THEN "none"
    ELSE IF FirstNumRaises(nb) THEN "bullet"
    ELSE IF FirstAbstractNumId(nb) = 0 THEN "bullet"
    ELSE "number"

\* run.font.size.pt if run.font.size else None
FontSizePt(size) == IF ~IsNone(size) /\ Val(size) # 0 THEN size ELSE None

RunData(run) ==
    [text |-> run.text, bold |-> run.bold, italic |-> run.italic,
     underline |-> run.underline, font_size |-> FontSizePt(run.size)]

get_paragraph_style(p, nb) ==
    [bullet |-> ListKind(p, nb) = "bullet",
     number |-> ListKind(p, nb) = "number",
     level  |-> StyleLevel(p),
     runs   |-> [k \in 1..Len(p.runs) |-> RunData(p.runs[k])]]

-----------------------------------------------------------------------------
(* add_table_to_slide *)

TableRows(table) == table.rows
TableCols(table) == table.cols

\* mutant: the row after the header is forced bold too
CellBold_TwoRows(i) == IF i <= 1 THEN "True" ELSE "None"

\* p.font.bold of target cell (i, j), i counted from 0: forced for the
\* header row only, left unset otherwise
CellBold(i) == IF i = 0 THEN "True" ELSE "None"

add_table_to_slide(table, left, top, width, height) ==
    [kind   |-> "table",
     left   |-> left,
     top    |-> top,
     width  |-> Max(width, INCHES_1),
     height |-> Max(height, INCHES_0_5),
     rows   |-> TableRows(table),
     cols   |-> TableCols(table),
     bold   |-> [i \in 1..TableRows(table) |->
                   [j \in 1..TableCols(table) |-> CellBold(i - 1)]]]

-----------------------------------------------------------------------------
(* create_slide *)

\* mutant: the italic flag is set from the bold flag
EmitRun_ItalicFromBold(run_data) ==
    [text      |-> run_data.text,
     bold      |-> IF Truthy(run_data.bold) THEN "True" ELSE "None",
     italic    |-> IF Truthy(run_data.bold) THEN "True" ELSE "None",
     underline |-> IF Truthy(run_data.underline) THEN "True" ELSE "None",
     size      |-> run_data.font_size,
     name      |-> "Arial"]

\* the flags create_slide sets on the run it adds for run_data
EmitRun(run_data) ==
    [text      |-> run_data.text,
     bold      |-> IF Truthy(run_data.bold) THEN "True" ELSE "None",
     italic    |-> IF Truthy(run_data.italic) THEN "True" ELSE "None",
     underline |-> IF Truthy(run_data.underline) THEN "True" ELSE "None",
     size      |-> run_data.font_size,
     name      |-> "Arial"]

IsList(st) == st.bullet \/ st.number

\* the text box of one content paragraph, as it stands when the loop body
\* ends or raises.  add_bullet_or_number is defined nowhere, so no bullet
\* glyph or number is ever attached
ContentBox(content, y) ==
    LET st == content.style IN
    [kind   |-> "textbox",
     left   |-> CONTENT_ZONE_x,
     top    |-> y,
     width  |-> CONTENT_ZONE_width,
     height |-> INCHES_0_3,
     text   |-> IF st.runs # <<>> THEN <<>> ELSE content.text,
     runs   |-> [k \in 1..Len(st.runs) |-> EmitRun(st.runs[k])],
     size   |-> IF st.runs # <<>> THEN None ELSE Some(11),
     level  |-> IF IsList(st) THEN st.level ELSE 0,
     number |-> None]

\* the loop over slide_data["content"], from item k with current_y = y
RECURSIVE EmitContents(_, _, _, _)
EmitContents(content, k, y, shapes) ==
    IF k > Len(content)
    THEN [shapes |-> shapes, y |-> y, raised |-> None]
    ELSE LET box == ContentBox(content[k], y) IN
         IF IsList(content[k].style)
         THEN [shapes |-> Append(shapes, box), y |-> y,
               raised |-> Some("NameError: add_bullet_or_number")]
         ELSE EmitContents(content, k + 1, y + INCHES_0_3, Append(shapes, box))

\* the guard before each table: one inch must remain in the content zone
NoRoomForTable(y) == y + INCHES_1 > CONTENT_ZONE_y + CONTENT_ZONE_height

\* the loop over slide_data["tables"], from table k with current_y = y
RECURSIVE EmitTables(_, _, _, _)
EmitTables(tables, k, y, shapes) ==
    IF k > Len(tables)
    THEN [shapes |-> shapes, y |-> y, warned |-> FALSE]
    ELSE IF NoRoomForTable(y)
    THEN [shapes |-> shapes, y |-> y, warned |-> TRUE]
    ELSE LET h == TableHeight(TableRows(tables[k])) IN
         EmitTables(tables, k + 1, y + h + INCHES_0_2,
                    Append(shapes,
                           add_table_to_slide(tables[k], CONTENT_ZONE_x, y,
                                              CONTENT_ZONE_width, h)))

\* layout 'Blank' if the template has one, else the first layout
HasBlank(lay) == \E k \in 1..Len(lay) : lay[k] = "Blank"
PickLayout(lay) ==
    IF HasBlank(lay) THEN Some("Blank")
    ELSE IF Len(lay) > 0 THEN Some(lay[1])
    ELSE None

\* create_shape_with_text for the title and subtitle zones
ZoneBox(kind, text, top, height) ==
    [kind |-> kind, text |-> text, top |-> top,
     height |-> Max(height, INCHES_0_5)]

\* create_slide(prs, slide_data): the slide built, the messages printed and
\* the exception raised, if any
create_slide(lay, slide_data) ==
    IF IsNone(PickLayout(lay))
    THEN [raised |-> Some("ValueError: Aucun layout disponible"),
          slide |-> None, log |-> <<>>]
    ELSE
    LET head == << ZoneBox("title", slide_data.title,
                           TITLE_ZONE_y, TITLE_ZONE_height),
                   ZoneBox("subtitle", slide_data.subtitle,
                           SUBTITLE_ZONE_y, SUBTITLE_ZONE_height) >>
        c == EmitContents(slide_data.content, 1, CONTENT_ZONE_y, head)
        t == EmitTables(slide_data.tables, 1, c.y, c.shapes)
        fallback == IF HasBlank(lay) THEN <<>>
                    ELSE << "Layout 'Blank' non trouve" >>
    IN IF ~IsNone(c.raised)
       THEN [raised |-> c.raised,
             slide |-> Some([layout |-> Val(PickLayout(lay)), shapes |-> c.shapes]),
             log |-> fallback]
       ELSE [raised |-> None,
             slide |-> Some([layout |-> Val(PickLayout(lay)), shapes |-> t.shapes]),
             log |-> fallback \o
                     (IF t.warned
                      THEN << "Warning: Espace insuffisant pour le tableau" >>
                      ELSE <<>>)]

-----------------------------------------------------------------------------
(* parse_word_content: the walk over doc.element.body *)

\* doc.element.body.find_all(tag): the body's children with that tag
find_all(b, tag) == SelectSeq(b, LAMBDA e : e.tag = tag)

\* the pair appended to elements for body element e, if any: the element
\* paired with the kind is find_all(e.tag)[0], the body's first of that tag.
\* The element is kept as found: the loop wraps a paragraph only to read its
\* text, and hands tables on as they are
Extracted(b, e) ==
    IF endswith(e.tag, TAG_P)
    THEN Some(<<"paragraph", find_all(b, e.tag)[1]>>)
    ELSE IF endswith(e.tag, TAG_TBL)
    THEN Some(<<"table", find_all(b, e.tag)[1]>>)
    ELSE None

EmptySlide == [title |-> <<>>, subtitle |-> <<>>, content |-> <<>>, tables |-> <<>>]

IsMarker(text) == startswith(upper(text), SLIDE)

\* one pass of the loop over elements: the new slides_data, current_slide
\* and current_slide_index
Segment(elem, sd, cur, curIdx, nb) ==
    LET same == [slides_data |-> sd, current_slide |-> cur,
                 current_slide_index |-> curIdx]
        text == strip(ParagraphText(elem[2]))
    IN
    IF elem[1] = "paragraph"
    THEN IF text = <<>> THEN same
         ELSE IF IsMarker(text)
         THEN [slides_data |-> IF ~IsNone(cur) THEN Append(sd, Val(cur)) ELSE sd,
               current_slide |-> Some(EmptySlide),
               current_slide_index |-> curIdx + 1]
         ELSE IF ~IsNone(cur)
         THEN IF startswith(text, TITRE)
              THEN [same EXCEPT !.current_slide =
                        Some([Val(cur) EXCEPT !.title = strip(after(text, TITRE))])]
              ELSE IF startswith(text, SOUS_TITRE)
              THEN [same EXCEPT !.current_slide =
                        Some([Val(cur) EXCEPT
                                !.subtitle = strip(after(text, SOUS_TITRE))])]
              ELSE [same EXCEPT !.current_slide =
                        Some([Val(cur) EXCEPT !.content =
                                Append(@, [text |-> text,
                                           style |-> get_paragraph_style(elem[2], nb)])])]
         ELSE same
    ELSE IF elem[1] = "table" /\ ~IsNone(cur)
    THEN [same EXCEPT !.current_slide =
              Some([Val(cur) EXCEPT !.tables = Append(@, elem[2])])]
    ELSE same

\* mutant: an empty result is let through
NoSlides_Never(sd) == FALSE

\* if not slides_data
NoSlides(sd) == sd = <<>>

-----------------------------------------------------------------------------
(* The program: __main__ calling create_ppt_from_docx *)

\* except Exception as e: print(...); sys.exit(1)
Fail(exc, msgs) ==
    /\ raised' = Some(exc)
    /\ log' = log \o msgs \o << "Erreur lors de la conversion" >>
    /\ exit_code' = 1
    /\ pc' = "exit"

ValidateTemplate ==
    /\ pc = "validate"
    /\ IF Len(layouts) = 0
       THEN /\ Fail("ValueError: template", << "Erreur: aucun layout" >>)
            /\ UNCHANGED idx
       ELSE /\ pc' = "extract"
            /\ idx' = 1
            /\ log' = log \o << "Extraction du contenu Word..." >>
            /\ UNCHANGED <<raised, exit_code>>
    /\ UNCHANGED <<body, numbering, layouts, elements, slides_data,
                   current_slide, current_slide_index, out, saved, para, style>>

\* one pass of "for element in doc.element.body"
ExtractStep ==
    /\ pc = "extract"
    /\ idx <= Len(body)
    /\ elements' = elements \o
                   (IF IsNone(Extracted(body, body[idx])) THEN <<>>
                    ELSE << Val(Extracted(body, body[idx])) >>)
    /\ idx' = idx + 1
    /\ UNCHANGED <<body, numbering, layouts, pc, slides_data, current_slide,
                   current_slide_index, out, saved, log, exit_code, raised,
                   para, style>>

\* the body object need not offer find_all at all: the first call then
\* raises AttributeError, which __main__ reports
ExtractRaise ==
    /\ pc = "extract"
    /\ idx <= Len(body)
    /\ elements = <<>>
    /\ ~IsNone(Extracted(body, body[idx]))
    /\ Fail("AttributeError: find_all", <<>>)
    /\ UNCHANGED <<body, numbering, layouts, idx, elements, slides_data,
                   current_slide, current_slide_index, out, saved, para, style>>

ExtractDone ==
    /\ pc = "extract"
    /\ idx > Len(body)
    /\ pc' = "segment"
    /\ idx' = 1
    /\ UNCHANGED <<body, numbering, layouts, elements, slides_data,
                   current_slide, current_slide_index, out, saved, log,
                   exit_code, raised, para, style>>

\* one pass of "for elem_type, element in elements"
SegmentStep ==
    /\ pc = "segment"
    /\ idx <= Len(elements)
    /\ LET r == Segment(elements[idx], slides_data, current_slide,
                        current_slide_index, numbering)
       IN /\ slides_data' = r.slides_data
          /\ current_slide' = r.current_slide
          /\ current_slide_index' = r.current_slide_index
    /\ idx' = idx + 1
    /\ UNCHANGED <<body, numbering, layouts, pc, elements, out, saved, log,
                   exit_code, raised, para, style>>

\* after the loop: the open record is appended and parse_word_content returns
SegmentDone ==
    /\ pc = "segment"
    /\ idx > Len(elements)
    /\ slides_data' = IF ~IsNone(current_slide)
                      THEN Append(slides_data, Val(current_slide))
                      ELSE slides_data
    /\ log' = Append(log, "Nombre total de slides analysees")
    /\ pc' = "parsed"
    /\ UNCHANGED <<body, numbering, layouts, idx, elements, current_slide,
                   current_slide_index, out, saved, exit_code, raised, para,
                   style>>

\* if not slides_data: raise ValueError; else the template's slides are removed
CheckSlides ==
    /\ pc = "parsed"
    /\ IF NoSlides(slides_data)
       THEN /\ Fail("ValueError: Aucune slide trouvee", <<>>)
            /\ UNCHANGED <<idx, out>>
       ELSE /\ pc' = "emit"
            /\ idx' = 1
            /\ out' = <<>>
            /\ log' = Append(log, "Creation de la presentation PowerPoint...")
            /\ UNCHANGED <<raised, exit_code>>
    /\ UNCHANGED <<body, numbering, layouts, elements, slides_data,
                   current_slide, current_slide_index, saved, para, style>>

\* one pass of "for i, slide_data in enumerate(slides_data, 1)"
CreateSlideStep ==
    /\ pc = "emit"
    /\ idx <= Len(slides_data)
    /\ LET r == create_slide(layouts, slides_data[idx]) IN
       /\ out' = out \o r.slide
       /\ IF ~IsNone(r.raised)
          THEN /\ Fail(Val(r.raised), << "Creation de la slide" >> \o r.log)
               /\ UNCHANGED idx
          ELSE /\ log' = log \o << "Creation de la slide" >> \o r.log
               /\ idx' = idx + 1
               /\ UNCHANGED <<pc, raised, exit_code>>
    /\ UNCHANGED <<body, numbering, layouts, elements, slides_data,
                   current_slide, current_slide_index, saved, para, style>>

\* prs.save(output_pptx) succeeds
SaveDone ==
    /\ pc = "emit"
    /\ idx > Len(slides_data)
    /\ saved' = TRUE
    /\ log' = Append(log, "Conversion terminee avec succes")
    /\ exit_code' = 0
    /\ pc' = "exit"
    /\ UNCHANGED <<body, numbering, layouts, idx, elements, slides_data,
                   current_slide, current_slide_index, out, raised, para, style>>

\* prs.save(output_pptx) raises: reported and raised again
SaveRaise ==
    /\ pc = "emit"
    /\ idx > Len(slides_data)
    /\ Fail("Exception: save", << "Erreur lors de la sauvegarde" >>)
    /\ UNCHANGED <<body, numbering, layouts, idx, elements, slides_data,
                   current_slide, current_slide_index, out, saved, para, style>>

-----------------------------------------------------------------------------
(* Inputs *)

PlainRun(text) == Run(text, "None", "None", "None", None)

Texts ==
    { <<"S","L","I","D","E"," ","1">>,
      <<" ","s","l","i","d","e"," ","2"," ">>,
      <<"T","i","t","r","e"," ",":"," ","A"," ">>,
      SOUS_TITRE \o <<" ","B">>,
      <<"x">>,
      <<" ">> }

Tables == { Tbl(1, 1), Tbl(2, 2) }

BodyElems == { P(<<PlainRun(t)>>, None) : t \in Texts } \cup Tables \cup { SectPr }

SeqsUpTo(S, n) == UNION { [1..k -> S] : k \in 0..n }

Templates == { <<>>, << "Title Slide" >>, << "Title Slide", "Blank" >> }

NumFmt == [a \in 0..1 |-> IF a = 0 THEN "bullet" ELSE "decimal"]

DefaultNumbering == Some(<< [numId |-> 1, abstractNumId |-> 0, numFmt |-> "bullet"] >>)

Init ==
    /\ body \in SeqsUpTo(BodyElems, MaxBody)
    /\ numbering = DefaultNumbering
    /\ layouts \in Templates
    /\ pc = "validate"
    /\ idx = 0
    /\ elements = <<>>
    /\ slides_data = <<>>
    /\ current_slide = None
    /\ current_slide_index = -1
    /\ out = <<>>
    /\ saved = FALSE
    /\ log = <<>>
    /\ exit_code = -1
    /\ raised = None
    /\ para = None
    /\ style = None

Next ==
    \/ ValidateTemplate
    \/ ExtractStep
    \/ ExtractRaise
    \/ ExtractDone
    \/ SegmentStep
    \/ SegmentDone
    \/ CheckSlides
    \/ CreateSlideStep
    \/ SaveDone
    \/ SaveRaise

Spec == Init /\ [][Next]_vars

-----------------------------------------------------------------------------
(* get_paragraph_style applied to one paragraph of a document *)

Flags == {"True", "False", "None"}
Underlines == Flags \cup {"DOUBLE"}
Sizes == {None, Some(14)}

Runs == { Run(<<"a">>, b, i, u, z) : b \in Flags, i \in Flags, u \in Underlines, z \in Sizes }

Indents == {None, Some(0), Some(25), Some(50)}

NumPrs ==
    {None} \cup
    { Some([ilvl |-> l, numId |-> n]) :
        l \in {None} \cup { Some(v) : v \in 0..MaxLevel },
        n \in {None} \cup { Some(v) : v \in 1..MaxNums } }

PPrs == {None} \cup { Some([numPr |-> np, ind |-> d]) : np \in NumPrs, d \in Indents }

\* a num_list: nums 1..n in order, each naming an abstract definition and
\* carrying that definition's format
NumLists ==
    UNION { { [k \in 1..n |-> [numId |-> k, abstractNumId |-> a[k],
                               numFmt |-> f[a[k]]]] :
                a \in [1..n -> 0..1], f \in [0..1 -> {"bullet", "decimal"}] } :
            n \in 0..MaxNums }

Numberings == {None} \cup { Some(nl) : nl \in NumLists }

InitStyle ==
    /\ para \in { Some(P(<<PlainRun(<<"a">>)>>, pp)) : pp \in PPrs }
    /\ numbering \in Numberings
    /\ pc = "classify"
    /\ body = <<>>
    /\ layouts = <<>>
    /\ idx = 0
    /\ elements = <<>>
    /\ slides_data = <<>>
    /\ current_slide = None
    /\ current_slide_index = -1
    /\ out = <<>>
    /\ saved = FALSE
    /\ log = <<>>
    /\ exit_code = -1
    /\ raised = None
    /\ style = None

Classify ==
    /\ pc = "classify"
    /\ style' = Some(get_paragraph_style(Val(para), numbering))
    /\ pc' = "classified"
    /\ UNCHANGED <<body, numbering, layouts, idx, elements, slides_data,
                   current_slide, current_slide_index, out, saved, log,
                   exit_code, raised, para>>

SpecStyle == InitStyle /\ [][Classify]_vars

-----------------------------------------------------------------------------
(* create_slide applied to one slide record *)

\* the content entry parse_word_content builds for paragraph p
ParaData(p, nb) ==
    [text |-> strip(ParagraphText(p)), style |-> get_paragraph_style(p, nb)]

\* the record of one slide whose blocks are the paragraphs ps and tables ts
SlideOf(ps, ts, nb) ==
    [title |-> <<"A">>, subtitle |-> <<"B">>,
     content |-> [k \in 1..Len(ps) |-> ParaData(ps[k], nb)],
     tables |-> ts]

ListPPrs ==
    {None} \cup
    { Some([numPr |-> Some([ilvl |-> Some(l), numId |-> Some(1)]), ind |-> None]) :
        l \in 0..MaxLevel }

SlideNumberings ==
    { Some(<< [numId |-> 1, abstractNumId |-> a, numFmt |-> NumFmt[a]] >>) : a \in 0..1 }

\* one paragraph, every combination of run flags
RunParagraphs ==
    { <<P(rs, pp)>> : rs \in SeqsUpTo(Runs, MaxRuns) \ {<<>>}, pp \in ListPPrs }

\* several paragraphs, list and plain
ListParagraphs ==
    SeqsUpTo({ P(<<PlainRun(<<"a">>)>>, pp) : pp \in ListPPrs }, MaxContent)

\* plain paragraphs followed by tables
PlainParagraphs ==
    { [k \in 1..n |-> P(<<PlainRun(<<"a">>)>>, None)] : n \in 0..MaxContent }

SlideTables ==
    SeqsUpTo({ Tbl(r, c) : r \in 1..MaxRows, c \in 1..MaxCols }, MaxTables)

\* paragraphs and tables interleaved
MixedBlocks ==
    SeqsUpTo({ P(<<PlainRun(<<"a">>)>>, None), Tbl(1, 1), Tbl(2, 2) }, MaxContent)

\* the documents create_slide is tried on: body, numbering part, template
SlideInputs ==
    (RunParagraphs \X SlideNumberings \X { << "Title Slide", "Blank" >> })
    \cup ((ListParagraphs \cup MixedBlocks) \X SlideNumberings
            \X (Templates \ {<<>>}))
    \cup ({ ps \o ts : ps \in PlainParagraphs, ts \in SlideTables }
            \X { DefaultNumbering } \X { << "Title Slide" >> })

InitSlide ==
    /\ \E in \in SlideInputs :
         /\ body = in[1]
         /\ numbering = in[2]
         /\ layouts = in[3]
    /\ slides_data =
         << SlideOf(SelectSeq(body, LAMBDA e : e.tag = TAG_P),
                    SelectSeq(body, LAMBDA e : e.tag = TAG_TBL), numbering) >>
    /\ pc = "create_slide"
    /\ idx = 1
    /\ elements = <<>>
    /\ current_slide = None
    /\ current_slide_index = -1
    /\ out = <<>>
    /\ saved = FALSE
    /\ log = <<>>
    /\ exit_code = -1
    /\ raised = None
    /\ para = None
    /\ style = None

\* create_slide(prs, slide_data), called once
CallCreateSlide ==
    /\ pc = "create_slide"
    /\ LET r == create_slide(layouts, slides_data[idx]) IN
       /\ out' = out \o r.slide
       /\ log' = log \o r.log
       /\ raised' = r.raised
    /\ pc' = "returned"
    /\ UNCHANGED <<body, numbering, layouts, idx, elements, slides_data,
                   current_slide, current_slide_index, saved, exit_code,
                   para, style>>

SpecSlide == InitSlide /\ [][CallCreateSlide]_vars

-----------------------------------------------------------------------------
(* What the claims speak of *)

IsPara(e) == e.tag = TAG_P
IsTable(e) == e.tag = TAG_TBL

\* the body paragraphs that are "SLIDE" markers, by position
MarkerAt(k) == IsPara(body[k]) /\ IsMarker(strip(ParagraphText(body[k])))
MarkerCount == Cardinality({ k \in 1..Len(body) : MarkerAt(k) })
MarkersBefore(k) == Cardinality({ j \in 1..(k - 1) : MarkerAt(j) })

\* the body paragraphs that are "Titre :" lines
TitreAt(k) ==
    /\ IsPara(body[k])
    /\ ~MarkerAt(k)
    /\ startswith(strip(ParagraphText(body[k])), TITRE)

ParseReturned == \E k \in 1..Len(log) : log[k] = "Nombre total de slides analysees"

\* C1: a document with N "SLIDE" paragraphs yields at most N slide records
C1_AtMostOneRecordPerMarker ==
    pc = "parsed" => Len(slides_data) <= MarkerCount

\* C2: the trimmed remainder of a "Titre :" line met while a record is open
\* is that record's title (the last such line of the record wins), and the
\* line is in no record's content
C2_LabelLineSetsTitle ==
    pc = "parsed" =>
      \A k \in 1..Len(body) :
        (/\ TitreAt(k)
         /\ MarkersBefore(k) > 0
         /\ \A j \in (k + 1)..Len(body) :
              TitreAt(j) => MarkersBefore(j) # MarkersBefore(k))
        => /\ Len(slides_data) >= MarkersBefore(k)
           /\ slides_data[MarkersBefore(k)].title =
                strip(after(strip(ParagraphText(body[k])), TITRE))
           /\ \A s \in 1..Len(slides_data) :
                \A c \in 1..Len(slides_data[s].content) :
                  slides_data[s].content[c].text # strip(ParagraphText(body[k]))

\* C3 as stated: with no "SLIDE" marker the run that parsed the document
\* ends without an exception and with status 0
C3_EmptyIsNotAnError ==
    (pc = "exit" /\ MarkerCount = 0 /\ ParseReturned)
      => (IsNone(raised) /\ exit_code = 0)

\* C3 amended: with no "SLIDE" marker parse_word_content returns no record,
\* and the run ends in an error: ValueError("Aucune slide trouvee") once the
\* document was parsed, reported by __main__ with exit status 1, no slide
\* created and nothing saved
C3_EmptyIsAnError ==
    MarkerCount = 0 =>
      /\ ParseReturned => slides_data = <<>>
      /\ out = <<>> /\ ~saved
      /\ pc = "exit" => (exit_code = 1 /\ ~IsNone(raised))
      /\ (pc = "exit" /\ ParseReturned)
           => raised = Some("ValueError: Aucune slide trouvee")

C3_Witness ==
    /\ pc = "exit"
    /\ MarkerCount = 0
    /\ Len(body) > 0
    /\ ParseReturned
    /\ raised = Some("ValueError: Aucune slide trouvee")
    /\ exit_code = 1

\* the slide record create_slide was given, and the shapes it made after
\* the title and subtitle boxes
TheSlide == slides_data[1]
Emitted == IF out = <<>> THEN <<>> ELSE SubSeq(out[1].shapes, 3, Len(out[1].shapes))
EmittedBoxes == SelectSeq(Emitted, LAMBDA sh : sh.kind = "textbox")
EmittedTables == SelectSeq(Emitted, LAMBDA sh : sh.kind = "table")
SourceParas == SelectSeq(body, IsPara)
SourceTables == SelectSeq(body, IsTable)

\* the place of content paragraph k among the ordinal paragraphs of its level
OrdinalRank(content, k) ==
    Cardinality({ j \in 1..k : /\ content[j].style.number
                               /\ content[j].style.level = content[k].style.level })

\* C4: on a slide, the k-th ordinal paragraph of a level is emitted with
\* number k
C4_OrdinalsNumberedFromOne ==
    pc = "returned" =>
      \A k \in 1..Len(TheSlide.content) :
        TheSlide.content[k].style.number
          => /\ Len(EmittedBoxes) >= k
             /\ EmittedBoxes[k].number = Some(OrdinalRank(TheSlide.content, k))

HasIlvl(p) ==
    /\ ~IsNone(p.pPr)
    /\ ~IsNone(Val(p.pPr).numPr)
    /\ ~IsNone(Val(Val(p.pPr).numPr).ilvl)
IlvlOf(p) == Val(Val(Val(p.pPr).numPr).ilvl)
HasIndent(p) == ~IsNone(p.pPr) /\ ~IsNone(Val(p.pPr).ind)
IndentOf(p) == Val(Val(p.pPr).ind)

\* C5 as stated: the level is the ilvl when there is one, else
\* floor(indent / 0.25 inch), else 0
C5_LevelFromIndent ==
    pc = "classified" =>
      Val(style).level =
        (IF HasIlvl(Val(para)) THEN IlvlOf(Val(para))
         ELSE IF HasIndent(Val(para)) THEN Max(0, IndentOf(Val(para)) \div 25)
         ELSE 0)

\* C5 amended: the level is the ilvl when there is one and 0 otherwise,
\* whatever the left indent
C5_LevelFromIlvlOnly ==
    pc = "classified" =>
      /\ HasIlvl(Val(para)) => Val(style).level = IlvlOf(Val(para))
      /\ ~HasIlvl(Val(para)) => Val(style).level = 0

C5_Witness ==
    /\ pc = "classified"
    /\ HasNumId(Val(para))
    /\ ~HasIlvl(Val(para))
    /\ HasIndent(Val(para)) /\ IndentOf(Val(para)) = 50
    /\ Val(style).level = 0

\* the format of the numbering definition the paragraph itself refers to
OwnFormat(p, nb) ==
    IF /\ HasNumId(p)
       /\ ~IsNone(nb)
       /\ \E k \in 1..Len(Val(nb)) :
            Val(nb)[k].numId = Val(Val(Val(p.pPr).numPr).numId)
    THEN Val(nb)[CHOOSE k \in 1..Len(Val(nb)) :
                   Val(nb)[k].numId = Val(Val(Val(p.pPr).numPr).numId)].numFmt
    ELSE "none"

\* C6: the kind follows the paragraph's own numbering definition, so a
\* paragraph whose definition is a bullet one and a paragraph of the same
\* document whose definition is a decimal one are classified differently
C6_KindFromOwnDefinition ==
    pc = "classified" =>
      \A pp \in PPrs :
        LET q == P(Val(para).runs, pp) IN
        (/\ OwnFormat(Val(para), numbering) = "bullet"
         /\ OwnFormat(q, numbering) = "decimal")
        => /\ Val(style).bullet
           /\ ~Val(style).number
           /\ get_paragraph_style(q, numbering).number

\* a source flag counts as set unless it is False or unset
IsSet(v) == v \notin {"False", "None"}

C8_TableFidelity ==
    pc = "returned" =>
      \A t \in 1..Len(EmittedTables) :
        /\ EmittedTables[t].rows = SourceTables[t].rows
        /\ EmittedTables[t].cols = SourceTables[t].cols
        /\ DOMAIN EmittedTables[t].bold = 1..SourceTables[t].rows
        /\ \A i \in 1..SourceTables[t].rows :
             /\ DOMAIN EmittedTables[t].bold[i] = 1..SourceTables[t].cols
             /\ \A j \in 1..SourceTables[t].cols :
                  EmittedTables[t].bold[i][j] = (IF i = 1 THEN "True" ELSE "None")

C8_Witness ==
    /\ pc = "returned"
    /\ Len(EmittedTables) = 2
    /\ EmittedTables[2].rows = 3
    /\ EmittedTables[2].cols = 2
    /\ EmittedTables[2].bold[1][2] = "True"
    /\ EmittedTables[2].bold[2][1] = "None"

\* C9: no emitted table reaches below the content zone
C9_TablesStayInZone ==
    pc = "returned" =>
      \A t \in 1..Len(EmittedTables) :
        EmittedTables[t].top + TableHeight(EmittedTables[t].rows)
          <= CONTENT_ZONE_y + CONTENT_ZONE_height

\* the kind of shape a source block is emitted as
ShapeKind(e) == IF IsPara(e) THEN "textbox" ELSE "table"

\* C10: the blocks of a slide are emitted in the order of the source,
\* paragraphs and tables interleaved
C10_BlocksInSourceOrder ==
    (pc = "returned" /\ IsNone(raised) /\ Len(Emitted) = Len(body)) =>
      \A k \in 1..Len(body) : Emitted[k].kind = ShapeKind(body[k])

\* the body paragraphs that are content of a record: not empty, neither a
\* marker nor a field-label line, and met after a marker
ContentAt(k) ==
    /\ IsPara(body[k])
    /\ strip(ParagraphText(body[k])) # <<>>
    /\ ~MarkerAt(k)
    /\ ~startswith(strip(ParagraphText(body[k])), TITRE)
    /\ ~startswith(strip(ParagraphText(body[k])), SOUS_TITRE)
    /\ MarkersBefore(k) > 0

\* the texts of the content paragraphs that follow the s-th marker, from
\* body position k on, in document order
RECURSIVE ContentAfterMarker(_, _)
ContentAfterMarker(s, k) ==
    IF k > Len(body) THEN <<>>
    ELSE (IF ContentAt(k) /\ MarkersBefore(k) = s
          THEN << strip(ParagraphText(body[k])) >>
          ELSE <<>>) \o ContentAfterMarker(s, k + 1)

\* C11: every content paragraph is appended once, in document order, to the
\* content of the record its most recent marker opened, and to no other
C11_ContentInItsRecord ==
    pc = "parsed" =>
      \A s \in 1..Len(slides_data) :
        [c \in 1..Len(slides_data[s].content) |-> slides_data[s].content[c].text]
          = ContentAfterMarker(s, 1)

====
